---- MODULE Spec2Model ----
(***************************************************************************)
(* Model of the two parallel cells of Day4/parallelism.ipynb:              *)
(*   - the Process cell: one multiprocessing.Process per chunk, started in *)
(*     a loop and then joined in a second loop;                            *)
(*   - the Pool cell: multiprocessing.Pool(processes=4), one apply_async   *)
(*     per chunk, then job.get() on every handle in submission order.      *)
(* The worker side (a task leaving the queue, finishing, raising) is the   *)
(* behaviour of the pool the cell constructs.  The cell forks its workers  *)
(* before it defines matrix_loop, so the workers run what the kernel held  *)
(* at that moment: nothing, the Process cell's version, or (when the cell  *)
(* is run again) the cell's own version.  The notebook never closes        *)
(* its pool; the shutdown operations of the design document are modelled   *)
(* separately (SpecShutdown) from the document's own words.                *)
(***************************************************************************)
EXTENDS Integers, Sequences, FiniteSets, TLC

VARIABLES
    cell,       \* which notebook cell runs: "process" or "pool"
    target,     \* the function handed to the workers
    n,          \* number of tasks of the batch (range(10) in the notebook)
    capacity,   \* Pool(processes=...) of the Pool cell
    pc,         \* position of the master process in the cell
    jobs,       \* process_list / pool_jobs: the handles, in list order
    nwait,      \* index of the second loop (join / get)
    status,     \* per task: "new", "queued", "running", "done", "failed", "lost", "abandoned"
    queue,      \* the pool's task queue (FIFO)
    ret,        \* per task: what its handle holds once the task is over
    results,    \* the values job.get() returned, in the order of the loop
    overtook,   \* TRUE once a task ended before a task submitted earlier
    starts,     \* per task: how many times a worker began to run it
    nres,       \* per task: how many results were delivered for it
    err,        \* exception that left the cell: "none", "TaskError", "AttributeError", "PoolClosed"
    shut,       \* pool lifecycle: "open", "waiting", "closed_wait", "closed_nowait"
    atShut,     \* the tasks' status when shutdown was called (<<>> before)
    hung,       \* the tasks that never terminate once started
    mat,        \* the master's matrix (its shape)
    local,      \* per task: the local variable val of the worker that ran it
    funcs,      \* Day3: the profiled functions sorted by time (TRUE = a numpy one)
    shown,      \* Day3: what each print_stats call listed
    inherited,  \* the matrix_loop the kernel held when Pool(...) forked its workers
    unable      \* workers forked without a matrix_loop that are still alive

vars == <<cell, target, n, capacity, pc, jobs, nwait, status, queue, ret,
          results, overtook, starts, nres, err, shut, atShut, hung, mat, local,
          funcs, shown, inherited, unable>>

\* ---------------------------------------------------------------- bounds
MaxTasks == 4
MaxCap == 3
MaxFuncs == 16
MaxRows == 21

\* ---------------------------------------------------- program constants
NumChunks == 10
NumJobs == 10
Processes == 4
MatRows == 1000
TopCount == 15

NoValue == [kind |-> "none"]
\* Python's None, what a function without a return statement returns
PyNone == [kind |-> "None"]
TaskError == [kind |-> "error"]

Tasks == 0 .. (n - 1)

\* ------------------------------------------------------- pure functions
\* number of rows of the numpy slice mat[a:b] of a matrix with R rows
\* a slice bound as numpy reads it: a negative one counts from the end
SliceBound(R, x) ==
    IF x < 0 THEN (IF x + R < 0 THEN 0 ELSE x + R)
    ELSE (IF x < R THEN x ELSE R)

SliceLen(R, a, b) ==
    LET lo == SliceBound(R, a)
        hi == SliceBound(R, b)
    IN  IF hi > lo THEN hi - lo ELSE 0

index_start(R, index) == (R \div NumChunks) * index

\* an end index one row too far
index_end_inclusive(R, index) == (R \div NumChunks) * (index + 1) + 1

index_end(R, index) == (R \div NumChunks) * (index + 1)

\* val = mat[index_start:index_end].dot(mat.T): the product is kept as the
\* row range it was computed from together with its shape (what the cell
\* prints of it).
matrix_loop(R, index) ==
    [kind  |-> "value",
     rows  |-> <<index_start(R, index), index_end(R, index)>>,
     shape |-> <<SliceLen(R, index_start(R, index), index_end(R, index)), R>>]

\* the versions of matrix_loop a worker can hold
Versions == {"none", "process_version", "pool_version"}

\* the local variable val of the worker that ran task `index`
LocalVal(index) == matrix_loop(mat.rows, index)

\* what the function returns: the Pool cell's version ends with `return val`,
\* the Process cell's version has no return statement
Returned(version, val) == IF version = "process_version" THEN PyNone ELSE val

\* the value task `index` sends back to its handle.  A worker forked without
\* matrix_loop runs no task; its replacement is forked after the definition.
TaskValue(index) ==
    Returned(IF inherited = "none" THEN "pool_version" ELSE inherited,
             LocalVal(index))

\* result.shape exists: the value is an array
HasShape(v) == v.kind = "value" /\ "shape" \in DOMAIN v

\* the workers forked at Pool(processes=capacity) that cannot unpickle a task
UnableAtFork(version, cap) == IF version = "none" THEN cap ELSE 0

\* ------------------------------------------------------------ pool state
active == {i \in Tasks : status[i] = "running"}

active_count == Cardinality(active)

ready(i) == status[i] \in {"done", "failed"}

\* task i ends now: has it (or an earlier one) ended before an earlier task?
Overtakes(i) == overtook \/ \E j \in Tasks : j < i /\ ~ready(j)

\* pool_jobs.append(job) / process_list.append(p)
AppendJob(js, j) == Append(js, j)

\* enumerate(pool_jobs) / for p in process_list: the handle of iteration k
HandleAt(js, k) == js[k + 1]

\* an idle worker of the pool's `capacity` processes takes the next task
CanStartAny(q, cnt, cap) == q # <<>>

CanStart(q, cnt, cap) == q # <<>> /\ cnt < cap

\* what the three print_stats calls have listed: nothing yet
NothingShown == [top |-> NoValue, numpy_top |-> NoValue, top_numpy |-> NoValue]

\* mat = np.random.random((1000, 1500)): only its number of rows matters
Matrix(R) == [rows |-> R]

\* ---------------------------------------------------------------- Init
InitCommon ==
    /\ jobs = <<>>
    /\ nwait = 0
    /\ status = [i \in Tasks |-> "new"]
    /\ queue = <<>>
    /\ ret = [i \in Tasks |-> NoValue]
    /\ results = <<>>
    /\ overtook = FALSE
    /\ starts = [i \in Tasks |-> 0]
    /\ nres = [i \in Tasks |-> 0]
    /\ err = "none"
    /\ shut = "open"
    /\ atShut = <<>>
    /\ local = [i \in Tasks |-> NoValue]
    /\ shown = NothingShown

InitPool ==
    /\ cell = "pool"
    /\ target = "matrix_loop"
    /\ n \in 0 .. MaxTasks
    /\ capacity \in 1 .. MaxCap
    /\ pc = "submit"
    /\ mat = Matrix(MatRows)
    /\ funcs = <<>>
    /\ hung = {}
    /\ inherited \in Versions
    /\ unable = UnableAtFork(inherited, capacity)
    /\ InitCommon

InitProcess ==
    /\ cell = "process"
    /\ target = "matrix_loop"
    /\ n \in 0 .. MaxTasks
    /\ capacity = 1
    /\ pc = "start"
    /\ mat = Matrix(MatRows)
    /\ funcs = <<>>
    /\ hung = {}
    /\ inherited = "process_version"
    /\ unable = 0
    /\ InitCommon

Init == InitPool \/ InitProcess

\* ------------------------------------------------------ the Process cell
\* p = Process(target=matrix_loop, args=(mat, i)); process_list.append(p); p.start()
ProcStart ==
    /\ cell = "process" /\ pc = "start" /\ Len(jobs) < n
    /\ LET i == Len(jobs) IN
        /\ jobs' = AppendJob(jobs, i)
        /\ status' = [status EXCEPT ![i] = "running"]
        /\ starts' = [starts EXCEPT ![i] = @ + 1]
    /\ UNCHANGED <<cell, target, n, capacity, pc, nwait, queue, ret, results,
                   nres, err, shut, overtook, atShut,
                   hung, mat, local, funcs, shown, inherited, unable>>

\* the first loop is over
ProcStartDone ==
    /\ cell = "process" /\ pc = "start" /\ Len(jobs) = n
    /\ pc' = "join"
    /\ UNCHANGED <<cell, target, n, capacity, jobs, nwait, status, queue, ret,
                   results, starts, nres, err, shut, overtook, atShut,
                   hung, mat, local, funcs, shown, inherited, unable>>

\* workers that share one variable val: the child's result lands in all of them
ProcExitShared(i) ==
    /\ cell = "process" /\ status[i] = "running"
    /\ status' = [status EXCEPT ![i] = "done"]
    /\ overtook' = Overtakes(i)
    /\ local' = [j \in Tasks |-> LocalVal(i)]
    /\ UNCHANGED <<cell, target, n, capacity, pc, jobs, nwait, queue, ret,
                   results, starts, nres, err, shut, atShut,
                   hung, mat, funcs, shown, inherited, unable>>

\* the child ran matrix_loop to its end: val is local and is dropped
ProcExit(i) ==
    /\ cell = "process" /\ status[i] = "running"
    /\ status' = [status EXCEPT ![i] = "done"]
    /\ overtook' = Overtakes(i)
    /\ local' = [local EXCEPT ![i] = LocalVal(i)]
    /\ UNCHANGED <<cell, target, n, capacity, pc, jobs, nwait, queue, ret,
                   results, starts, nres, err, shut, atShut,
                   hung, mat, funcs, shown, inherited, unable>>

\* the child raised: it exits with a non-zero code, the master is not told
ProcCrash(i) ==
    /\ cell = "process" /\ status[i] = "running"
    /\ status' = [status EXCEPT ![i] = "failed"]
    /\ overtook' = Overtakes(i)
    /\ UNCHANGED <<cell, target, n, capacity, pc, jobs, nwait, queue, ret,
                   results, starts, nres, err, shut, atShut,
                   hung, mat, local, funcs, shown, inherited, unable>>

\* p.join(): returns once the process it waits on has finished
ProcJoin ==
    /\ cell = "process" /\ pc = "join" /\ nwait < n
    /\ ready(HandleAt(jobs, nwait))
    /\ nwait' = nwait + 1
    /\ UNCHANGED <<cell, target, n, capacity, pc, jobs, status, queue, ret,
                   results, starts, nres, err, shut, overtook, atShut,
                   hung, mat, local, funcs, shown, inherited, unable>>

ProcJoinDone ==
    /\ cell = "process" /\ pc = "join" /\ nwait = n
    /\ pc' = "done"
    /\ UNCHANGED <<cell, target, n, capacity, jobs, nwait, status, queue, ret,
                   results, starts, nres, err, shut, overtook, atShut,
                   hung, mat, local, funcs, shown, inherited, unable>>

\* --------------------------------------------------------- the Pool cell
\* a submit that waits for a free worker before it hands the task over
SubmitWhenFree ==
    /\ cell = "pool" /\ pc = "submit" /\ Len(jobs) < n /\ shut = "open"
    /\ active_count < capacity
    /\ LET i == Len(jobs) IN
        /\ jobs' = AppendJob(jobs, i)
        /\ status' = [status EXCEPT ![i] = "queued"]
        /\ queue' = Append(queue, i)
    /\ UNCHANGED <<cell, target, n, capacity, pc, nwait, ret, results, starts,
                   nres, err, shut, overtook, atShut,
                   hung, mat, local, funcs, shown, inherited, unable>>

\* job = pool.apply_async(matrix_loop, (mat, i)); pool_jobs.append(job)
Submit ==
    /\ cell = "pool" /\ pc = "submit" /\ Len(jobs) < n /\ shut = "open"
    /\ LET i == Len(jobs) IN
        /\ jobs' = AppendJob(jobs, i)
        /\ status' = [status EXCEPT ![i] = "queued"]
        /\ queue' = Append(queue, i)
    /\ UNCHANGED <<cell, target, n, capacity, pc, nwait, ret, results, starts,
                   nres, err, shut, overtook, atShut,
                   hung, mat, local, funcs, shown, inherited, unable>>

SubmitDone ==
    /\ cell = "pool" /\ pc = "submit" /\ Len(jobs) = n /\ shut # "waiting"
    /\ pc' = "collect"
    /\ UNCHANGED <<cell, target, n, capacity, jobs, nwait, status, queue, ret,
                   results, starts, nres, err, shut, overtook, atShut,
                   hung, mat, local, funcs, shown, inherited, unable>>

\* an idle worker that holds a matrix_loop takes the task at the head of
\* the queue and runs it
TaskStart ==
    /\ cell = "pool"
    /\ CanStart(queue, active_count, capacity - unable)
    /\ LET i == Head(queue) IN
        /\ status' = [status EXCEPT ![i] = "running"]
        /\ starts' = [starts EXCEPT ![i] = @ + 1]
    /\ queue' = Tail(queue)
    /\ UNCHANGED <<cell, target, n, capacity, pc, jobs, nwait, ret, results,
                   nres, err, shut, overtook, atShut,
                   hung, mat, local, funcs, shown, inherited, unable>>

\* a worker forked without matrix_loop takes the task at the head of the
\* queue and dies unpickling it: the task is off the queue and is never run,
\* nothing is sent to its handle; the pool forks a worker in its place, which
\* holds the definition the cell has made by then
TaskLost ==
    /\ cell = "pool"
    /\ queue # <<>> /\ unable > 0
    /\ status' = [status EXCEPT ![Head(queue)] = "lost"]
    /\ queue' = Tail(queue)
    /\ unable' = unable - 1
    /\ UNCHANGED <<cell, target, n, capacity, pc, jobs, nwait, ret, results,
                   starts, nres, err, shut, overtook, atShut,
                   hung, mat, local, funcs, shown, inherited>>

\* the task returned: its value is sent back to the handle
TaskFinish(i) ==
    /\ cell = "pool" /\ status[i] = "running"
    /\ status' = [status EXCEPT ![i] = "done"]
    /\ ret' = [ret EXCEPT ![i] = TaskValue(i)]
    /\ nres' = [nres EXCEPT ![i] = @ + 1]
    /\ overtook' = Overtakes(i)
    /\ local' = [local EXCEPT ![i] = LocalVal(i)]
    /\ UNCHANGED <<cell, target, n, capacity, pc, jobs, nwait, queue, results,
                   starts, err, shut, atShut,
                   hung, mat, funcs, shown, inherited, unable>>

\* the task raised and the pool puts it back in the queue
TaskFailRetry(i) ==
    /\ cell = "pool" /\ status[i] = "running"
    /\ status' = [status EXCEPT ![i] = "queued"]
    /\ queue' = Append(queue, i)
    /\ UNCHANGED <<cell, target, n, capacity, pc, jobs, nwait, ret, results,
                   overtook, starts, nres, err, shut, atShut,
                   hung, mat, local, funcs, shown, inherited, unable>>

\* the task raised: the exception is sent back to the handle, the worker lives on
TaskFail(i) ==
    /\ cell = "pool" /\ status[i] = "running"
    /\ status' = [status EXCEPT ![i] = "failed"]
    /\ ret' = [ret EXCEPT ![i] = TaskError]
    /\ nres' = [nres EXCEPT ![i] = @ + 1]
    /\ overtook' = Overtakes(i)
    /\ UNCHANGED <<cell, target, n, capacity, pc, jobs, nwait, queue, results,
                   starts, err, shut, atShut,
                   hung, mat, local, funcs, shown, inherited, unable>>

\* result = job.get(); print("Result", i, result.shape).  get blocks until
\* the job is over; it returns the job's value, or re-raises the exception
\* the task raised, which ends the loop and the cell.  The print ends them
\* too when the value returned has no shape.
Get ==
    /\ cell = "pool" /\ pc = "collect" /\ nwait < n /\ shut # "waiting"
    /\ LET j == HandleAt(jobs, nwait) IN
        /\ ready(j)
        /\ IF status[j] = "failed"
             THEN /\ pc' = "raised"
                  /\ err' = "TaskError"
                  /\ UNCHANGED <<results, nwait>>
             ELSE IF HasShape(ret[j])
             THEN /\ results' = Append(results, ret[j])
                  /\ nwait' = nwait + 1
                  /\ UNCHANGED <<pc, err>>
             ELSE /\ results' = Append(results, ret[j])
                  /\ pc' = "raised"
                  /\ err' = "AttributeError"
                  /\ UNCHANGED nwait
    /\ UNCHANGED <<cell, target, n, capacity, jobs, status, queue, ret, starts,
                   nres, shut, overtook, atShut,
                   hung, mat, local, funcs, shown, inherited, unable>>

GetDone ==
    /\ cell = "pool" /\ pc = "collect" /\ nwait = n /\ shut # "waiting"
    /\ pc' = "done"
    /\ UNCHANGED <<cell, target, n, capacity, jobs, nwait, status, queue, ret,
                   results, starts, nres, err, shut, overtook, atShut,
                   hung, mat, local, funcs, shown, inherited, unable>>

\* ------------------------------------------- shutdown (design document)
\* shutdown(wait): stops accepting new tasks; with wait it blocks until all
\* in-flight and queued tasks finish; without, queued-but-not-started tasks
\* are abandoned and in-flight tasks run on.
DrainedInFlight(q, act) == act = {}

Drained(q, act) == q = <<>> /\ act = {}

AbandonAll(st) ==
    [i \in DOMAIN st |-> IF st[i] \in {"queued", "running"} THEN "abandoned" ELSE st[i]]

Abandon(st) ==
    [i \in DOMAIN st |-> IF st[i] = "queued" THEN "abandoned" ELSE st[i]]

InControl == pc \in {"submit", "collect", "done", "raised"}

\* the call of shutdown(wait=true): the pool closes and the caller blocks
ShutdownWait ==
    /\ cell = "pool" /\ shut = "open" /\ InControl
    /\ shut' = "waiting"
    /\ atShut' = status
    /\ UNCHANGED <<cell, target, n, capacity, pc, jobs, nwait, status, queue,
                   ret, results, overtook, starts, nres, err,
                   hung, mat, local, funcs, shown, inherited, unable>>

\* the tasks a worker took off the queue that are not over
in_flight == {i \in Tasks : status[i] \in {"running", "lost"}}

\* shutdown(wait=true) returns
ShutdownReturn ==
    /\ cell = "pool" /\ shut = "waiting"
    /\ Drained(queue, in_flight)
    /\ shut' = "closed_wait"
    /\ UNCHANGED <<cell, target, n, capacity, pc, jobs, nwait, status, queue,
                   ret, results, overtook, starts, nres, err, atShut,
                   hung, mat, local, funcs, shown, inherited, unable>>

\* shutdown(wait=false): returns at once, the queue is dropped
ShutdownNoWait ==
    /\ cell = "pool" /\ shut = "open" /\ InControl
    /\ shut' = "closed_nowait"
    /\ atShut' = status
    /\ status' = Abandon(status)
    /\ queue' = <<>>
    /\ UNCHANGED <<cell, target, n, capacity, pc, jobs, nwait, ret, results,
                   overtook, starts, nres, err,
                   hung, mat, local, funcs, shown, inherited, unable>>

\* a submit on a closed pool accepts the task all the same
SubmitClosedAccepts ==
    /\ cell = "pool" /\ pc = "submit" /\ Len(jobs) < n
    /\ shut \in {"closed_wait", "closed_nowait"}
    /\ LET i == Len(jobs) IN
        /\ jobs' = AppendJob(jobs, i)
        /\ status' = [status EXCEPT ![i] = "queued"]
        /\ queue' = Append(queue, i)
    /\ UNCHANGED <<cell, target, n, capacity, pc, nwait, ret, results,
                   overtook, starts, nres, err, shut, atShut,
                   hung, mat, local, funcs, shown, inherited, unable>>

\* submit after shutdown: PoolClosed is raised to the caller at once
SubmitClosed ==
    /\ cell = "pool" /\ pc = "submit" /\ Len(jobs) < n
    /\ shut \in {"closed_wait", "closed_nowait"}
    /\ pc' = "raised"
    /\ err' = "PoolClosed"
    /\ UNCHANGED <<cell, target, n, capacity, jobs, nwait, status, queue, ret,
                   results, overtook, starts, nres, shut, atShut,
                   hung, mat, local, funcs, shown, inherited, unable>>

\* ------------------------------------- Day3: the print_stats filters
\* A profiled function is named by its rank in the list sorted by time;
\* funcs[r] tells whether 'numpy' occurs in its name.
poolVars == <<cell, target, n, capacity, jobs, nwait, status, queue, ret,
              results, overtook, starts, nres, err, shut, atShut, hung, mat,
              local, inherited, unable>>

\* mystats.sort_stats("time"): the functions in order of time
fcn_list == [r \in 1 .. Len(funcs) |-> r]

\* a string restriction keeps every function (none dropped)
MatchAll(list) == list

\* a string restriction keeps the functions whose name matches it
MatchNumpy(list) == SelectSeq(list, LAMBDA r : funcs[r])

\* an integer restriction keeps the first `count` lines, when it is below
\* the length of the list
TakeTop(list, count) ==
    IF 0 <= count /\ count < Len(list) THEN SubSeq(list, 1, count) ELSE list

\* one restriction applied to the list
eval_print_amount(sel, list) ==
    IF sel.kind = "str" THEN MatchNumpy(list) ELSE TakeTop(list, sel.count)

RECURSIVE get_print_list(_, _)
\* the restrictions applied one after the other, in the order given
get_print_list(sel_list, list) ==
    IF sel_list = <<>> THEN list
    ELSE get_print_list(Tail(sel_list), eval_print_amount(Head(sel_list), list))

Numpy == [kind |-> "str"]

Top(count) == [kind |-> "int", count |-> count]

Listed(list) == [kind |-> "list", list |-> list]

\* what print_stats(*amount) lists
print_stats(amount) == Listed(get_print_list(amount, fcn_list))

\* mystats = pstats.Stats(file): a profile without functions is refused
InitStats ==
    /\ cell = "stats"
    /\ target = "none"
    /\ n = 0
    /\ capacity = 1
    /\ pc = "print_top"
    /\ mat = Matrix(MatRows)
    /\ funcs \in UNION {[1 .. len -> BOOLEAN] : len \in 1 .. MaxFuncs}
    /\ hung = {}
    /\ inherited = "none"
    /\ unable = 0
    /\ InitCommon

\* mystats.sort_stats("time").print_stats(15)
PrintTop ==
    /\ cell = "stats" /\ pc = "print_top"
    /\ shown' = [shown EXCEPT !.top = print_stats(<<Top(TopCount)>>)]
    /\ pc' = "print_numpy_top"
    /\ UNCHANGED <<poolVars, funcs>>

\* mystats.sort_stats("time").print_stats('numpy', 15)
PrintNumpyTop ==
    /\ cell = "stats" /\ pc = "print_numpy_top"
    /\ shown' = [shown EXCEPT !.numpy_top = print_stats(<<Numpy, Top(TopCount)>>)]
    /\ pc' = "print_top_numpy"
    /\ UNCHANGED <<poolVars, funcs>>

\* the other order the notebook describes: print_stats(15, 'numpy')
PrintTopNumpy ==
    /\ cell = "stats" /\ pc = "print_top_numpy"
    /\ shown' = [shown EXCEPT !.top_numpy = print_stats(<<Top(TopCount), Numpy>>)]
    /\ pc' = "printed"
    /\ UNCHANGED <<poolVars, funcs>>

StatsNext == PrintTop \/ PrintNumpyTop \/ PrintTopNumpy

SpecStats == InitStats /\ [][StatsNext]_vars

\* ------------------------------------------------------- specifications
ProcNext ==
    \/ ProcStart
    \/ ProcStartDone
    \/ \E i \in Tasks : ProcExit(i)
    \/ \E i \in Tasks : ProcCrash(i)
    \/ ProcJoin
    \/ ProcJoinDone

WorkerNext ==
    \/ TaskStart
    \/ TaskLost
    \/ \E i \in Tasks : TaskFinish(i)
    \/ \E i \in Tasks : TaskFail(i)

PoolNext ==
    \/ Submit
    \/ SubmitDone
    \/ WorkerNext
    \/ Get
    \/ GetDone

Next == ProcNext \/ PoolNext

Spec == Init /\ [][Next]_vars

\* the steps of the master process: its two loops
MasterNext ==
    \/ ProcStart
    \/ ProcStartDone
    \/ ProcJoin
    \/ ProcJoinDone
    \/ Submit
    \/ SubmitDone
    \/ Get
    \/ GetDone

\* every task terminates; the workers and the master are processes that the
\* operating system keeps scheduling
FairSpec ==
    /\ Spec
    /\ WF_vars(WorkerNext)
    /\ WF_vars(\E i \in Tasks : ProcExit(i) \/ ProcCrash(i))
    /\ WF_vars(MasterNext)

ShutdownNext ==
    \/ PoolNext
    \/ ShutdownWait
    \/ ShutdownReturn
    \/ ShutdownNoWait
    \/ SubmitClosed

\* the Pool cell with the design document's shutdown available to the caller
SpecShutdown == InitPool /\ [][ShutdownNext]_vars

FairSpecShutdown == SpecShutdown /\ WF_vars(WorkerNext)

\* the Pool cell when some task never terminates: nothing ends it (the
\* cell sets no timeout), the other tasks end as before
InitHung ==
    /\ cell = "pool"
    /\ target = "matrix_loop"
    /\ n \in 0 .. MaxTasks
    /\ capacity \in 1 .. MaxCap
    /\ pc = "submit"
    /\ mat = Matrix(MatRows)
    /\ funcs = <<>>
    /\ hung \in {h \in SUBSET Tasks : Cardinality(h) <= 1}
    /\ inherited \in Versions
    /\ unable = UnableAtFork(inherited, capacity)
    /\ InitCommon

HungWorkerNext ==
    \/ TaskStart
    \/ TaskLost
    \/ \E i \in Tasks \ hung : TaskFinish(i)
    \/ \E i \in Tasks \ hung : TaskFail(i)

HungNext ==
    \/ Submit
    \/ SubmitDone
    \/ HungWorkerNext
    \/ Get
    \/ GetDone
    \/ ShutdownWait
    \/ ShutdownReturn
    \/ SubmitClosed

SpecHung == InitHung /\ [][HungNext]_vars

FairSpecHung == SpecHung /\ WF_vars(HungWorkerNext)

\* matrix_loop on a two-dimensional array: the slice and the product raise
\* nothing, so no task of this cell fails
ChunksNext ==
    \/ Submit
    \/ SubmitDone
    \/ TaskStart
    \/ TaskLost
    \/ \E i \in Tasks : TaskFinish(i)
    \/ Get
    \/ GetDone

\* the Pool cell as written: 10 jobs of matrix_loop on 4 workers, on the
\* notebook's matrix
InitC10 ==
    /\ cell = "pool"
    /\ target = "matrix_loop"
    /\ n = NumJobs
    /\ capacity = Processes
    /\ pc = "submit"
    /\ mat = Matrix(MatRows)
    /\ funcs = <<>>
    /\ hung = {}
    /\ inherited \in Versions
    /\ unable = UnableAtFork(inherited, capacity)
    /\ InitCommon

SpecC10 == InitC10 /\ [][ChunksNext]_vars

\* the Pool cell as written (10 jobs, 4 workers) on a matrix of any number
\* of rows
InitChunks ==
    /\ cell = "pool"
    /\ target = "matrix_loop"
    /\ n = NumJobs
    /\ capacity = Processes
    /\ pc = "submit"
    /\ mat \in {Matrix(R) : R \in 0 .. MaxRows}
    /\ funcs = <<>>
    /\ hung = {}
    /\ inherited \in Versions
    /\ unable = UnableAtFork(inherited, capacity)
    /\ InitCommon

SpecChunks == InitChunks /\ [][ChunksNext]_vars

\* ------------------------------------------------ claims on the notebook
\* the entries job.get() has returned so far are the values of tasks 0, 1, ...
ResultsInOrder ==
    /\ Len(results) <= n
    /\ \A k \in 1 .. Len(results) : results[k] = TaskValue(k - 1)

\* C1: in the Pool cell, whatever the order in which the workers complete,
\* the get loop yields the value of task i at position i, and a batch none of
\* whose tasks raised is left only by the normal end of the loop, with
\* exactly n values yielded.
C1_ResultsByIndex ==
    cell = "pool" =>
        /\ ResultsInOrder
        /\ (pc \in {"done", "raised"} /\ \A i \in Tasks : status[i] # "failed") =>
             pc = "done" /\ Len(results) = n

\* a queued task becomes running in this step
StartsNow(i) == status[i] = "queued" /\ status'[i] = "running"

\* C2: the pool never runs more than `capacity` tasks at once, and a queued
\* task starts only from a state with a free worker (active_count < capacity).
C2_CapacityBound ==
    /\ [](cell = "pool" => active_count \in 0 .. capacity)
    /\ [][cell = "pool" => \A i \in Tasks : StartsNow(i) => active_count < capacity]_vars

\* every worker is busy and a task still waits in the queue
C2_Witness == cell = "pool" /\ active_count = capacity /\ queue # <<>>

\* C3: a failed task does not abort the batch: the get loop never ends with
\* the task's exception, and a finished batch has n entries, the failed
\* tasks' slots holding the failure marker and the others their values.
C3_FailureMarkerInSlot ==
    cell = "pool" =>
        /\ err # "TaskError"
        /\ pc = "done" =>
            /\ Len(results) = n
            /\ \A k \in 1 .. n :
                results[k] = IF status[k - 1] = "failed" THEN TaskError
                             ELSE TaskValue(k - 1)

\* C4: the master has left the cell (normally or by an exception) only when
\* every task of the batch has completed or failed.
C4_Barrier ==
    pc \in {"done", "raised"} => \A i \in Tasks : ready(i)

\* C7: no task is run twice: a task that is queued or new, or that was lost
\* with the worker that took it, has not been started, one that runs or is
\* over was started exactly once; a failed task is not started again.
C7_AtMostOnce ==
    \A i \in Tasks :
        /\ starts[i] <= 1
        /\ status[i] \in {"running", "done", "failed"} => starts[i] = 1
        /\ status[i] \in {"new", "queued", "lost"} => starts[i] = 0

\* a batch in which a task failed has run to its end: every task is over
C7_Witness ==
    /\ cell = "pool" /\ n >= 2
    /\ \E i \in Tasks : status[i] = "failed" /\ starts[i] = 1
    /\ \A j \in Tasks : ready(j)

\* -------------------------------------------------- claims on shutdown
Closed == {"closed_wait", "closed_nowait"}

HasResult(i) == ready(i) /\ nres[i] = 1 /\ ret[i] # NoValue

\* C5: shutdown(wait=true) has returned only if every task submitted before
\* the call, queued or in flight at that moment, has its Result.
C5_ShutdownWaitDrains ==
    shut = "closed_wait" =>
        \A i \in Tasks : atShut[i] # "new" => HasResult(i)

\* shutdown(wait=true) returned after a call that found one task queued and
\* another running
C5_Witness ==
    /\ shut = "closed_wait"
    /\ \E i, j \in Tasks : atShut[i] = "queued" /\ atShut[j] = "running"

TaskIds == 0 .. (MaxTasks - 1)

Accepted(i) == i \in Tasks /\ status[i] # "new"

\* C6: no task ever has more than one Result, and every accepted task
\* eventually has exactly one.
C6_ExactlyOneResult ==
    /\ [](\A i \in Tasks : nres[i] <= 1)
    /\ \A i \in TaskIds : [](Accepted(i) => <>(i \in Tasks /\ HasResult(i)))

\* the caller invokes submit in this step
SubmitStep == pc = "submit" /\ Len(jobs) < n /\ (pc' # pc \/ jobs' # jobs)

\* C8: a submit on a closed pool raises PoolClosed at once and changes
\* nothing in the pool: no handle, no queue entry, no status, no result; a
\* task that was not accepted before the shutdown never starts.
C8_SubmitAfterShutdown ==
    /\ [][(shut \in Closed /\ SubmitStep) =>
            /\ pc' = "raised" /\ err' = "PoolClosed"
            /\ jobs' = jobs /\ queue' = queue /\ status' = status
            /\ ret' = ret /\ results' = results
            /\ starts' = starts /\ nres' = nres /\ shut' = shut]_vars
    /\ [][shut # "open" =>
            \A i \in Tasks : status[i] = "new" => status'[i] = "new" /\ starts'[i] = 0]_vars
    /\ [](shut \in Closed /\ pc = "submit" /\ Len(jobs) < n => ENABLED SubmitClosed)

\* PoolClosed was raised for a task while another task was running
C8_Witness ==
    /\ pc = "raised" /\ err = "PoolClosed"
    /\ \E i, j \in Tasks : status[i] = "new" /\ status[j] = "running"

\* C9: after shutdown(wait=false) the tasks that were queued at the call are
\* abandoned and never started, the tasks that were in flight keep running
\* or are over with their own outcome, and they do come to their end.
C9_NoWaitAbandonsQueued ==
    /\ [](shut = "closed_nowait" =>
            \A i \in Tasks :
                /\ atShut[i] = "queued" =>
                     status[i] = "abandoned" /\ starts[i] = 0 /\ nres[i] = 0
                /\ atShut[i] = "running" =>
                     status[i] \in {"running", "done", "failed"} /\ starts[i] = 1)
    /\ \A i \in TaskIds :
         [](i \in Tasks /\ shut = "closed_nowait" /\ atShut[i] = "running"
              => <>(i \in Tasks /\ HasResult(i)))

\* shutdown(wait=false) returned while a task was running and another
\* queued; the first has since completed, the second is abandoned
C9_Witness ==
    /\ shut = "closed_nowait"
    /\ \E i, j \in Tasks :
         /\ atShut[i] = "running" /\ status[i] = "done"
         /\ atShut[j] = "queued" /\ status[j] = "abandoned"

\* ------------------------------------------------ the 10-task example
\* an integer as a value returned by job.get()
IntValue(x) == [kind |-> "value", sum |-> x]

C12_SubmitNeverBlocks ==
    /\ [](cell = "pool" /\ pc = "submit" /\ Len(jobs) < n /\ shut = "open"
            => ENABLED Submit)
    /\ [][cell = "pool" /\ jobs' # jobs =>
            /\ Len(jobs') = Len(jobs) + 1
            /\ status[Len(jobs)] = "new" /\ status'[Len(jobs)] = "queued"
            /\ queue' = Append(queue, Len(jobs))
            /\ pc' = pc]_vars
    /\ [](cell = "pool" => \A k \in 1 .. Len(queue) - 1 : queue[k] < queue[k + 1])

\* all n > capacity tasks are submitted, every worker is busy, the others
\* wait in the queue and no task has finished yet
C12_Witness ==
    /\ cell = "pool" /\ pc = "collect" /\ Len(jobs) = n /\ n > capacity
    /\ active_count = capacity /\ Len(queue) = n - capacity
    /\ \A i \in Tasks : status[i] \in {"queued", "running"}

\* a task that never terminates holds a worker
HungRuns == \E h \in hung : status[h] = "running"

\* C13: a task that never terminates stays running once started, so at most
\* capacity - 1 other tasks run beside it; with two workers or more every
\* other accepted task still gets its Result; the get loop never passes the
\* hung task's handle and never comes to its end, and shutdown(wait=true)
\* does not return once the hung task was accepted.
C13_HungTaskKeepsSlot ==
    /\ [][\A h \in hung : status[h] = "running" => status'[h] = "running"]_vars
    /\ [](\A h \in hung :
            /\ status[h] = "running" =>
                 active_count >= 1 /\ Cardinality(active \ {h}) <= capacity - 1
            /\ ~ready(h) /\ nwait <= h /\ pc # "done"
            /\ shut = "closed_wait" => atShut[h] = "new")
    /\ \A i \in TaskIds :
         [](Accepted(i) /\ i \notin hung /\ capacity >= 2 /\ HungRuns
              => <>(i \in Tasks /\ HasResult(i)))

\* worker i assigns its local variable in this step
Assigns(i) == local'[i] # local[i]

\* C14: a step in which a worker assigns its local val changes no other
\* worker's local state, nor the master's matrix, lists, loop index and
\* collected results; the matrix is never changed; the Process cell gets
\* nothing back from its workers, and in the Pool cell a handle holds
\* nothing but what its own task returned (its val, or None when the
\* workers run the version without a return statement) or raised.
C14_NoSharedMemory ==
    /\ [][\A i \in Tasks : Assigns(i) =>
            /\ \A j \in Tasks \ {i} :
                 local'[j] = local[j] /\ ret'[j] = ret[j] /\ status'[j] = status[j]
            /\ mat' = mat /\ jobs' = jobs /\ nwait' = nwait
            /\ results' = results /\ pc' = pc
            /\ cell = "process" => ret' = ret
            /\ cell = "pool" => ret'[i] = Returned(inherited, local'[i])]_vars
    /\ [](mat = Matrix(MatRows))
    /\ [](cell = "process" => results = <<>> /\ \A i \in Tasks : ret[i] = NoValue)
    /\ [](cell = "pool" => \A i \in Tasks :
            ret[i] \in {NoValue, TaskError, Returned(inherited, local[i])})

\* the Process cell is over: three workers each hold their own val, none of
\* which reached the master
C14_Witness ==
    /\ cell = "process" /\ pc = "done" /\ n >= 3
    /\ \A i \in Tasks : local[i] = matrix_loop(MatRows, i) /\ ret[i] = NoValue
    /\ \A i, j \in Tasks : i # j => local[i] # local[j]

\* the rows of the matrix that went into the value v of a task
RowsOf(v) == v.rows[1] .. (v.rows[1] + v.shape[1] - 1)

Finished == {i \in Tasks : status[i] = "done"}

\* the number of tasks whose val was computed from row r
Cover(r) == Cardinality({i \in Finished : r \in RowsOf(local[i])})

\* C15: on a matrix of R rows task i works on rows floor(R/10)*i up to
\* floor(R/10)*(i+1) - 1; the ranges of two tasks are disjoint, each has
\* floor(R/10) rows; once the ten tasks have run their union is
\* 0 .. 10*floor(R/10)-1, the last R mod 10 rows are in no range, and every
\* row is in exactly one range precisely when R is a multiple of 10.
C15_ChunksPartition ==
    LET R == mat.rows
        c == R \div 10
    IN  /\ \A i \in Finished :
             /\ local[i].rows = <<c * i, c * (i + 1)>>
             /\ local[i].shape = <<c, R>>
             /\ RowsOf(local[i]) = (c * i) .. (c * (i + 1) - 1)
             /\ Cardinality(RowsOf(local[i])) = c
        /\ \A i, j \in Finished : i # j => RowsOf(local[i]) \cap RowsOf(local[j]) = {}
        /\ pc = "done" => Finished = 0 .. 9
        /\ Finished = 0 .. 9 =>
             /\ UNION {RowsOf(local[i]) : i \in Finished} = 0 .. (10 * c - 1)
             /\ \A r \in 0 .. (R - 1) : Cover(r) = IF r < 10 * c THEN 1 ELSE 0
             /\ Cardinality({r \in 0 .. (R - 1) : Cover(r) = 0}) = R % 10
             /\ (\A r \in 0 .. (R - 1) : Cover(r) = 1) <=> (R % 10 = 0)

\* the ten tasks have run on a matrix of more than 10 rows whose number of
\* rows is not a multiple of 10: its last row went into no task
C15_Witness ==
    /\ Finished = 0 .. 9 /\ n = 10 /\ mat.rows > 10 /\ mat.rows % 10 # 0
    /\ Cover(mat.rows - 1) = 0 /\ Cover(0) = 1

\* C16: when every task terminates and the processes are scheduled, each
\* cell comes to its end (normally or by an exception), for every n and
\* capacity.
C16_BatchTerminates == <>(pc \in {"done", "raised"})

\* ------------------------------------------- claims on the profiler cells
Range(seq) == {seq[k] : k \in 1 .. Len(seq)}

Ascending(seq) == \A k \in 1 .. Len(seq) - 1 : seq[k] < seq[k + 1]

NumpyRanks == {r \in 1 .. Len(funcs) : funcs[r]}

\* the number of numpy functions up to rank r
NumpyUpTo(r) == Cardinality({q \in NumpyRanks : q <= r})

IsPrefix(b, a) == Len(b) <= Len(a) /\ SubSeq(a, 1, Len(b)) = b

\* C11: print_stats('numpy', 15) lists the first min(15, k) numpy functions,
\* print_stats(15, 'numpy') lists the numpy functions among the first 15 of
\* all; the second list is a prefix of the first, has at most 15 entries,
\* and fewer than 15 when one of the top 15 is not a numpy function.
C11_FilterOrder ==
    pc = "printed" =>
        LET a == shown.numpy_top.list
            b == shown.top_numpy.list
        IN  /\ Ascending(a) /\ Ascending(b)
            /\ Range(a) = {r \in NumpyRanks : NumpyUpTo(r) <= 15}
            /\ Range(b) = {r \in NumpyRanks : r <= 15}
            /\ IsPrefix(b, a)
            /\ Len(b) <= 15
            /\ (\E r \in 1 .. 15 : r > Len(funcs) \/ ~funcs[r]) => Len(b) < 15

\* the two orders differ: one lists 15 numpy functions, the other fewer
C11_Witness ==
    /\ pc = "printed"
    /\ Len(shown.numpy_top.list) = 15
    /\ Len(shown.top_numpy.list) < 15
    /\ shown.numpy_top # shown.top_numpy

====
